---- MODULE Spec2Model ----
(***************************************************************************)
(* A model of src/app.py: a Flask application with a user table, an item   *)
(* table, cookie sessions (Flask-Login) and six request handlers.          *)
(*                                                                         *)
(* Every handler is a function from the state and the request to the      *)
(* state after it and the response (index_outcome, ...), and one action    *)
(* that applies it (index, ...). register is also given step by step (the  *)
(* two lookups, then the insert and commit) for the specification          *)
(* SpecRace, in which registrations of different clients interleave.      *)
(*                                                                         *)
(* The storage schema is taken to exist (GET /init_db has been served or   *)
(* the database was there already); init_db is then a no-op.               *)
(***************************************************************************)
EXTENDS Integers, FiniteSets, Sequences, TLC

VARIABLES
    backend,      \* "sqlite" | "postgresql": SQLALCHEMY_DATABASE_URI (app.py 16-22)
    users,        \* rows of table user
    items,        \* rows of table item
    item_id_seq,  \* postgresql: last value of the sequence item_id_seq; sqlite: unused, 0
    session,      \* per client: the user id Flask-Login keeps in the session cookie, 0 if none
    reg,          \* per client: the locals of a register() call in progress
    deleted,      \* history: the item ids of every row deleted so far
    credentials   \* history: id, email and password of every registration that succeeded

vars == <<backend, users, items, item_id_seq, session, reg, deleted, credentials>>

----------------------------------------------------------------------------
(* Bounds and input sets *)

MaxItemId == 2

Clients == {"c1", "c2"}

ItemIds == 1..MaxItemId

\* An email address of 121 characters (a short local part, a domain of several
\* labels) and an item name of 101, each written by its first and last characters.
LongEmail == "bob@mail.example...example.com"
LongName == "buy milk...and milk"

Emails == {"alice@x.com", "bob@x.com"}
Passwords == {"secret1", "hunter2"}
Salts == {"salt1"}

Backends == {"sqlite", "postgresql"}

\* Length of the strings the forms are fed.
StrLen ==
    ("" :> 0) @@ ("a" :> 1) @@ ("alice" :> 5) @@ ("bob" :> 3) @@
    ("alice@x.com" :> 11) @@ ("bob@x.com" :> 9) @@ ("alice-at-x.com" :> 14) @@
    ("secret1" :> 7) @@ ("hunter2" :> 7) @@ ("abc12" :> 5) @@ ("buy milk" :> 8) @@
    (LongEmail :> 121) @@ (LongName :> 101)

\* Whether a string has the shape local@domain.tld.
EmailSyntax ==
    ("" :> FALSE) @@ ("alice@x.com" :> TRUE) @@ ("bob@x.com" :> TRUE) @@
    ("alice-at-x.com" :> FALSE) @@ (LongEmail :> TRUE)

Max(S) == IF S = {} THEN 0 ELSE CHOOSE m \in S : \A x \in S : x <= m

----------------------------------------------------------------------------
(* URLs and responses *)

Url(endpoint, item_id) == [endpoint |-> endpoint, item_id |-> item_id]
NoUrl == Url("", 0)

url_for(endpoint) == Url(endpoint, 0)

\* The values the query parameter next of /login is given.
NextParams == {NoUrl, Url("index", 0), Url("update_item", 1)}

NoForm == [name |-> "", username |-> "", email |-> "", password |-> "",
           confirm_password |-> ""]

Redirect(location, next, flash) ==
    [status |-> 302, location |-> location, next |-> next, flash |-> flash,
     body |-> "", items |-> {}]

Render(template, flash, its) ==
    [status |-> 200, location |-> NoUrl, next |-> NoUrl, flash |-> flash,
     body |-> template, items |-> its]

\* The answer to a request whose view raises exception.
InternalServerError(exception) ==
    [status |-> 500, location |-> NoUrl, next |-> NoUrl, flash |-> "",
     body |-> exception, items |-> {}]

----------------------------------------------------------------------------
(* Password hashing: flask_bcrypt *)

\* bcrypt as a salted one-way function: the digest names the salt and the password
\* it was made from and is only ever compared with another digest.
Bcrypt(salt, password) == <<"$2b$12$", salt, password>>

generate_password_hash(password, salt) ==
    [salt |-> salt, digest |-> Bcrypt(salt, password)]

\* A check that takes every password.
check_password_hash_any(pw_hash, password) == TRUE

check_password_hash(pw_hash, password) ==
    Bcrypt(pw_hash.salt, password) = pw_hash.digest

----------------------------------------------------------------------------
(* The tables *)

\* User(username=, email=, password=): the password setter stores the hash only.
User(id, username, email, password, salt) ==
    [id |-> id, username |-> username, email |-> email,
     password_hash |-> generate_password_hash(password, salt)]

verify_password(user, password) == check_password_hash(user.password_hash, password)

Item(id, name, complete, user_id) ==
    [id |-> id, name |-> name, complete |-> complete, user_id |-> user_id]

UserIds(tbl) == {u.id : u \in tbl}
ItemRowIds(tbl) == {it.id : it \in tbl}

\* User.query.filter_by(username=username).first(): the id of a matching row, 0 for None.
FindByUsername(tbl, username) ==
    IF \E u \in tbl : u.username = username
    THEN (CHOOSE u \in tbl : u.username = username).id
    ELSE 0

\* A lookup that finds nothing.
FindByEmail_none(tbl, email) == 0

\* User.query.filter_by(email=email).first()
FindByEmail(tbl, email) ==
    IF \E u \in tbl : u.email = email
    THEN (CHOOSE u \in tbl : u.email = email).id
    ELSE 0

UserRow(tbl, id) == CHOOSE u \in tbl : u.id = id

\* Columns declared without unique=True.
UniqueViolation_unconstrained(tbl, row) == FALSE

\* unique=True on user.username and user.email: the INSERT of row is refused.
UniqueViolation(tbl, row) ==
    \E u \in tbl : u.username = row.username \/ u.email = row.email

\* db.String(n): PostgreSQL refuses a longer value (VARCHAR(n)), SQLite stores it.
StringTooLong(s, n) == backend = "postgresql" /\ StrLen[s] > n

\* The id a new user row is given.
NewUserId(tbl) == Max(UserIds(tbl)) + 1

\* The id a new item row is given. SQLite's INTEGER PRIMARY KEY is the rowid, one more
\* than the largest in the table; PostgreSQL draws it from a sequence.
NewItemId ==
    IF backend = "sqlite" THEN Max(ItemRowIds(items)) + 1 ELSE item_id_seq + 1

\* The query without its filter.
filter_by_author_unfiltered(tbl, user) == tbl

\* Item.query.filter_by(author=current_user).all()
filter_by_author(tbl, user) == {it \in tbl : it.user_id = user}

\* item.complete = True in place of the negation.
ToggleComplete_sets(tbl, item_id) ==
    {IF it.id = item_id THEN [it EXCEPT !.complete = TRUE] ELSE it : it \in tbl}

\* item.complete = not item.complete, for the row db.session.get(Item, item_id) finds.
ToggleComplete(tbl, item_id) ==
    {IF it.id = item_id THEN [it EXCEPT !.complete = ~it.complete] ELSE it : it \in tbl}

\* A delete by the owner column in place of the primary key.
DeleteRow_by_owner(tbl, item_id) == {it \in tbl : it.user_id # item_id}

\* db.session.delete(item), for the row db.session.get(Item, item_id) finds.
DeleteRow(tbl, item_id) == {it \in tbl : it.id # item_id}

----------------------------------------------------------------------------
(* Forms *)

DataRequired(s) == s # ""
Length(s, min, max) == StrLen[s] >= min /\ StrLen[s] <= max
MinLength(s, min) == StrLen[s] >= min
Email(s) == EmailSyntax[s]

ItemForm_validate(form) == DataRequired(form.name)

RegistrationForm_validate(form) ==
    /\ DataRequired(form.username) /\ Length(form.username, 2, 20)
    /\ DataRequired(form.email) /\ Email(form.email)
    /\ DataRequired(form.password) /\ MinLength(form.password, 6)
    /\ DataRequired(form.confirm_password) /\ form.confirm_password = form.password

LoginForm_validate(form) ==
    /\ DataRequired(form.email) /\ Email(form.email)
    /\ DataRequired(form.password)

ItemForms == {[NoForm EXCEPT !.name = n] : n \in {"buy milk", ""}}

\* Those, and one with a name too long for the column.
AnyItemForms == ItemForms \cup {[NoForm EXCEPT !.name = LongName]}

RegForm(u, e, p, cp) ==
    [NoForm EXCEPT !.username = u, !.email = e, !.password = p, !.confirm_password = cp]

\* alice and bob, and a third form that shares its username with the first and its
\* email with the second; then one form per validator that refuses it.
RegistrationForms ==
    {RegForm("alice", "alice@x.com", "secret1", "secret1"),
     RegForm("bob", "bob@x.com", "hunter2", "hunter2"),
     RegForm("alice", "bob@x.com", "hunter2", "hunter2"),
     RegForm("bob", LongEmail, "hunter2", "hunter2"),
     RegForm("a", "alice@x.com", "secret1", "secret1"),
     RegForm("alice", "alice-at-x.com", "secret1", "secret1"),
     RegForm("alice", "alice@x.com", "abc12", "abc12"),
     RegForm("alice", "alice@x.com", "secret1", "hunter2")}

LoginForms ==
    {[NoForm EXCEPT !.email = e, !.password = p] : e \in Emails, p \in Passwords}
    \cup {[NoForm EXCEPT !.email = "alice-at-x.com", !.password = "secret1"]}

Methods == {"GET", "POST"}
FormsOf(method, forms) == IF method = "POST" THEN forms ELSE {NoForm}
NextOf(method) == IF method = "POST" THEN NextParams ELSE {Url("index", 0)}

----------------------------------------------------------------------------
(* Flash messages *)

FlashLoginRequired == "info: Please log in to access this page."
FlashItemAdded == "success: item added"
FlashUsernameTaken == "danger: username already in use"
FlashEmailTaken == "danger: email already in use"
FlashAccountCreated == "success: account created, please log in"
FlashLoginSucceeded == "success: logged in"
FlashLoginFailed == "danger: login failed, check email or password"
FlashLoggedOut == "info: logged out"

----------------------------------------------------------------------------
(* Sessions: Flask-Login *)

\* user_loader: db.session.get(User, int(user_id)); 0 for None.
load_user(user_id) == IF user_id \in UserIds(users) THEN user_id ELSE 0

\* current_user of a request of client c; 0 is the anonymous user.
current_user(c) == IF session[c] = 0 THEN 0 ELSE load_user(session[c])

is_authenticated(user) == user # 0

\* A view without the decorator.
login_required_missing(user) == TRUE

\* @login_required lets the view run.
login_required(user) == is_authenticated(user)

\* The redirect without the requested path.
Unauthorized_forgets(url) == Redirect(url_for("login"), NoUrl, FlashLoginRequired)

\* LoginManager.unauthorized(): to login_view, with the requested path as next.
Unauthorized(url) == Redirect(url_for("login"), url, FlashLoginRequired)

----------------------------------------------------------------------------
(* The views: what a request leaves behind and what it is answered *)

Outcome(us, its, seq, sess, response) ==
    [users |-> us, items |-> its, item_id_seq |-> seq, session |-> sess,
     resp |-> response]

\* The request changes nothing and is answered response.
Answer(response) == Outcome(users, items, item_id_seq, session, response)

\* GET /init_db: db.create_all() creates the missing tables only.
init_db_outcome(c) == Answer(Render("Database tables created!", "", {}))

\* GET, POST /
index_outcome(c, method, form) ==
    LET user == current_user(c) IN
    IF ~login_required(user)
    THEN Answer(Unauthorized(Url("index", 0)))
    ELSE IF method = "POST" /\ ItemForm_validate(form)
    THEN IF StringTooLong(form.name, 100)
         THEN Outcome(users, items, NewItemId, session, InternalServerError("DataError"))
         ELSE
         Outcome(users,
                 items \cup {Item(NewItemId, form.name, FALSE, user)},
                 IF backend = "sqlite" THEN item_id_seq ELSE NewItemId,
                 session,
                 Redirect(url_for("index"), NoUrl, FlashItemAdded))
    ELSE Answer(Render("index.html", "", filter_by_author(items, user)))

\* register(), from the branch on the two lookups to the response (lines 143-156),
\* on the user table as it is when the branch is reached.
RegisterFinish(form, existing_user, existing_email, salt) ==
    IF existing_user # 0
    THEN Answer(Render("register.html", FlashUsernameTaken, {}))
    ELSE IF existing_email # 0
    THEN Answer(Render("register.html", FlashEmailTaken, {}))
    ELSE LET new_user == User(NewUserId(users), form.username, form.email,
                              form.password, salt)
         IN  IF StringTooLong(form.username, 20) \/ StringTooLong(form.email, 120)
             THEN Answer(InternalServerError("DataError"))
             ELSE IF UniqueViolation(users, new_user)
             THEN Answer(InternalServerError("IntegrityError"))
             ELSE Outcome(users \cup {new_user}, items, item_id_seq, session,
                          Redirect(url_for("login"), NoUrl, FlashAccountCreated))

\* GET, POST /register
register_outcome(c, method, form, salt) ==
    IF method = "POST" /\ RegistrationForm_validate(form)
    THEN RegisterFinish(form, FindByUsername(users, form.username),
                        FindByEmail(users, form.email), salt)
    ELSE Answer(Render("register.html", "", {}))

\* GET, POST /login?next=
login_outcome(c, method, form, next_page) ==
    IF is_authenticated(current_user(c))
    THEN Answer(Redirect(url_for("index"), NoUrl, ""))
    ELSE IF method = "POST" /\ LoginForm_validate(form)
    THEN LET user == FindByEmail(users, form.email) IN
         IF user # 0 /\ verify_password(UserRow(users, user), form.password)
         THEN Outcome(users, items, item_id_seq, [session EXCEPT ![c] = user],
                      Redirect(IF next_page # NoUrl THEN next_page ELSE url_for("index"),
                               NoUrl, FlashLoginSucceeded))
         ELSE Answer(Render("login.html", FlashLoginFailed, {}))
    ELSE Answer(Render("login.html", "", {}))

\* logout() without logout_user().
logout_outcome_keeps(c) == Answer(Redirect(url_for("login"), NoUrl, FlashLoggedOut))

\* GET /logout
logout_outcome(c) ==
    Outcome(users, items, item_id_seq, [session EXCEPT ![c] = 0],
            Redirect(url_for("login"), NoUrl, FlashLoggedOut))

\* GET /update_item/<int:item_id>
update_item_outcome(c, item_id) ==
    IF ~login_required(current_user(c))
    THEN Answer(Unauthorized(Url("update_item", item_id)))
    ELSE Outcome(users, ToggleComplete(items, item_id), item_id_seq, session,
                 Redirect(url_for("index"), NoUrl, ""))

\* GET /delete_item/<int:item_id>
delete_item_outcome(c, item_id) ==
    IF ~login_required(current_user(c))
    THEN Answer(Unauthorized(Url("delete_item", item_id)))
    ELSE Outcome(users, DeleteRow(items, item_id), item_id_seq, session,
                 Redirect(url_for("index"), NoUrl, ""))

----------------------------------------------------------------------------
(* The actions *)

\* The state after a request with outcome o (its response goes to the client); the
\* history variables follow the tables.
Serve(o) ==
    /\ users' = o.users
    /\ items' = o.items
    /\ item_id_seq' = o.item_id_seq
    /\ session' = o.session
    /\ deleted' = deleted \cup (ItemRowIds(items) \ ItemRowIds(o.items))
    /\ UNCHANGED backend

\* The history of a registration with this form.
Registered(o, form) ==
    credentials' = credentials \cup
        {[id |-> u.id, email |-> form.email, password |-> form.password] :
            u \in o.users \ users}

init_db(c) ==
    Serve(init_db_outcome(c)) /\ UNCHANGED <<reg, credentials>>

index(c, method, form) ==
    /\ Max(ItemRowIds(index_outcome(c, method, form).items)) <= MaxItemId
    /\ index_outcome(c, method, form).item_id_seq <= MaxItemId
    /\ Serve(index_outcome(c, method, form))
    /\ UNCHANGED <<reg, credentials>>

register(c, method, form) ==
    \E salt \in Salts :
        /\ Serve(register_outcome(c, method, form, salt))
        /\ Registered(register_outcome(c, method, form, salt), form)
        /\ UNCHANGED reg

login(c, method, form, next_page) ==
    Serve(login_outcome(c, method, form, next_page)) /\ UNCHANGED <<reg, credentials>>

logout(c) ==
    Serve(logout_outcome(c)) /\ UNCHANGED <<reg, credentials>>

update_item(c, item_id) ==
    Serve(update_item_outcome(c, item_id)) /\ UNCHANGED <<reg, credentials>>

delete_item(c, item_id) ==
    Serve(delete_item_outcome(c, item_id)) /\ UNCHANGED <<reg, credentials>>

----------------------------------------------------------------------------
(* register() step by step, for requests that interleave *)

NoReg == [stage |-> "", form |-> NoForm, existing_user |-> 0, existing_email |-> 0]

\* POST /register, valid form, up to existing_user = ....first() (lines 132-140)
register_lookup_username(c, form) ==
    /\ reg[c] = NoReg
    /\ RegistrationForm_validate(form)
    /\ reg' = [reg EXCEPT ![c] =
                 [stage |-> "lookup_email", form |-> form,
                  existing_user |-> FindByUsername(users, form.username),
                  existing_email |-> 0]]
    /\ UNCHANGED <<backend, users, items, item_id_seq, session, deleted, credentials>>

\* existing_email = ....first() (line 141)
register_lookup_email(c) ==
    /\ reg[c].stage = "lookup_email"
    /\ reg' = [reg EXCEPT ![c] =
                 [@ EXCEPT !.stage = "branch",
                           !.existing_email = FindByEmail(users, reg[c].form.email)]]
    /\ UNCHANGED <<backend, users, items, item_id_seq, session, deleted, credentials>>

\* the branch, the insert, the commit and the response (lines 143-156)
register_commit(c) ==
    /\ reg[c].stage = "branch"
    /\ \E salt \in Salts :
         LET o == RegisterFinish(reg[c].form, reg[c].existing_user,
                                 reg[c].existing_email, salt)
         IN  Serve(o) /\ Registered(o, reg[c].form)
    /\ reg' = [reg EXCEPT ![c] = NoReg]

----------------------------------------------------------------------------
(* Specifications *)

Init ==
    /\ backend \in Backends
    /\ users = {}
    /\ items = {}
    /\ item_id_seq = 0
    /\ session = [c \in Clients |-> 0]
    /\ reg = [c \in Clients |-> NoReg]
    /\ deleted = {}
    /\ credentials = {}

Next ==
    \E c \in Clients :
        \/ init_db(c)
        \/ \E method \in Methods : \E form \in FormsOf(method, ItemForms) :
              index(c, method, form)
        \/ \E method \in Methods : \E form \in FormsOf(method, RegistrationForms) :
              register(c, method, form)
        \/ \E method \in Methods : \E form \in FormsOf(method, LoginForms) :
              \E next_page \in NextOf(method) : login(c, method, form, next_page)
        \/ logout(c)
        \/ \E item_id \in ItemIds : update_item(c, item_id)
        \/ \E item_id \in ItemIds : delete_item(c, item_id)

\* Every request is served from start to end before the next one.
Spec == Init /\ [][Next]_vars

NextRace ==
    \E c \in Clients :
        \/ \E form \in RegistrationForms : register_lookup_username(c, form)
        \/ register_lookup_email(c)
        \/ register_commit(c)

\* Registrations of different clients interleave between their steps.
SpecRace == Init /\ [][NextRace]_vars

----------------------------------------------------------------------------
(* The requests a client can send in the current state, by their outcomes *)

AnyItemIds == ItemIds \cup {MaxItemId + 1}

IndexOutcomes(c) ==
    {index_outcome(c, "GET", NoForm)}
    \cup {index_outcome(c, "POST", form) : form \in AnyItemForms}

RegisterOutcomes(c) ==
    {register_outcome(c, "GET", NoForm, salt) : salt \in Salts}
    \cup {register_outcome(c, "POST", form, salt) :
             form \in RegistrationForms, salt \in Salts}

LoginOutcomes(c) ==
    {login_outcome(c, "GET", NoForm, next_page) : next_page \in NextParams}
    \cup {login_outcome(c, "POST", form, next_page) :
             form \in LoginForms, next_page \in NextParams}

UpdateOutcomes(c) == {update_item_outcome(c, item_id) : item_id \in AnyItemIds}
DeleteOutcomes(c) == {delete_item_outcome(c, item_id) : item_id \in AnyItemIds}

ProtectedOutcomes(c) == IndexOutcomes(c) \cup UpdateOutcomes(c) \cup DeleteOutcomes(c)

OutcomesOf(c) ==
    {init_db_outcome(c), logout_outcome(c)} \cup ProtectedOutcomes(c)
    \cup RegisterOutcomes(c) \cup LoginOutcomes(c)

\* The redirect of an anonymous request to the login view.
ToLogin(response) == response.status = 302 /\ response.location = url_for("login")

----------------------------------------------------------------------------
(* C1 *)

\* C1: in every reachable state, the list GET / renders for a logged-in client holds
\* only items whose owner is that client's identity, and every item it owns.
C1_IndexListsExactlyOwnItems ==
    \A c \in Clients :
        current_user(c) # 0 =>
            LET response == index_outcome(c, "GET", NoForm).resp IN
            /\ response.body = "index.html"
            /\ \A it \in response.items : it \in items /\ it.user_id = current_user(c)
            /\ \A it \in items : it.user_id = current_user(c) => it \in response.items

\* A logged-in client is shown a list that is not empty while another identity owns
\* an item too.
C1_Witness ==
    \E c \in Clients :
        /\ current_user(c) # 0
        /\ index_outcome(c, "GET", NoForm).resp.items # {}
        /\ \E it \in items : it.user_id # current_user(c)

----------------------------------------------------------------------------
(* C2 *)

\* C2: in every reachable state, a request that changes the completion flag of an
\* item or removes the item is made by the identity that owns the item.
C2_OnlyOwnerMutates ==
    \A c \in Clients : \A o \in OutcomesOf(c) : \A it \in items :
        it \notin o.items => current_user(c) = it.user_id

----------------------------------------------------------------------------
(* C3 *)

\* C3: in every reachable state, a request to /, /update_item/<id> or
\* /delete_item/<id> by a client with no active session is answered with a redirect
\* to the login view and leaves the user table and the item table as they are.
C3_AnonymousIsTurnedAway ==
    \A c \in Clients :
        current_user(c) = 0 =>
            \A o \in ProtectedOutcomes(c) :
                /\ ToLogin(o.resp)
                /\ o.users = users
                /\ o.items = items
                /\ o.item_id_seq = item_id_seq
                /\ o.session = session

\* A client without a session while there are items to toggle or delete.
C3_Witness ==
    \E c \in Clients :
        /\ current_user(c) = 0
        /\ items # {}
        /\ \E it \in items : ToLogin(update_item_outcome(c, it.id).resp)

----------------------------------------------------------------------------
(* C4 *)

\* The URL a protected request of the client asks for, with the response it is given.
ProtectedRequests(c) ==
    {<<Url("index", 0), index_outcome(c, "GET", NoForm)>>}
    \cup {<<Url("update_item", item_id), update_item_outcome(c, item_id)>> :
             item_id \in ItemIds}
    \cup {<<Url("delete_item", item_id), delete_item_outcome(c, item_id)>> :
             item_id \in ItemIds}

\* The client is logged in by the request with outcome o.
StartsSession(c, o) == session[c] = 0 /\ o.session[c] # 0

\* C4: in every reachable state, GET / by a client with no active session is answered
\* with a redirect to /login that carries / as next (and so for every protected
\* path); a login of that client that succeeds with the remembered path as next is
\* answered with a redirect to that path, and one with no next with a redirect to
\* the index.
C4_LoginReturnsToNext ==
    \A c \in Clients :
        current_user(c) = 0 =>
            /\ LET response == index_outcome(c, "GET", NoForm).resp IN
               ToLogin(response) /\ response.next = Url("index", 0)
            /\ \A pr \in ProtectedRequests(c) : \A form \in LoginForms :
                  LET remembered == pr[2].resp.next
                      o == login_outcome(c, "POST", form, remembered)
                  IN  /\ ToLogin(pr[2].resp)
                      /\ remembered = pr[1]
                      /\ StartsSession(c, o) =>
                            o.resp.status = 302 /\ o.resp.location = pr[1]
            /\ \A form \in LoginForms :
                  LET o == login_outcome(c, "POST", form, NoUrl) IN
                  StartsSession(c, o) =>
                      o.resp.status = 302 /\ o.resp.location = url_for("index")

\* A client with no session that is sent from / to the login view and is logged in
\* by a login with the next it was given.
C4_Witness ==
    \E c \in Clients : \E form \in LoginForms :
        /\ current_user(c) = 0
        /\ StartsSession(c, login_outcome(c, "POST", form,
                                          index_outcome(c, "GET", NoForm).resp.next))
        /\ StartsSession(c, login_outcome(c, "POST", form, NoUrl))

----------------------------------------------------------------------------
(* C5 *)

UsernameTaken(form) == \E u \in users : u.username = form.username
EmailTaken(form) == \E u \in users : u.email = form.email

----------------------------------------------------------------------------
(* C6 *)

\* C6: in every reachable state, also of registrations that interleave between their
\* lookups and their insert, no two rows of the user table share a username or an
\* email.
C6_UsernameAndEmailUnique ==
    \A u1 \in users : \A u2 \in users :
        u1 # u2 => u1.username # u2.username /\ u1.email # u2.email /\ u1.id # u2.id

\* A registration that found neither its username nor its email and is about to
\* insert, while another registration has inserted the same username since.
C6_Witness ==
    \E c \in Clients :
        /\ reg[c].stage = "branch"
        /\ reg[c].existing_user = 0 /\ reg[c].existing_email = 0
        /\ UsernameTaken(reg[c].form)

----------------------------------------------------------------------------
(* C7 *)

\* C7: update_item applied to an existing item by a logged-in client and then applied
\* to it again leaves the item table as it was before the first: the completion
\* flag is back at its value and name, owner and id are untouched.
C7_DoubleToggle ==
    [][\A c \in Clients : \A item_id \in ItemIds :
          (update_item(c, item_id) /\ current_user(c) # 0
              /\ item_id \in ItemRowIds(items)) =>
             /\ items' # items
             /\ \A c2 \in Clients :
                   current_user(c2)' # 0 => update_item_outcome(c2, item_id)'.items = items
      ]_vars

\* update_item has set a completion flag.
C7_Witness == \E it \in items : it.complete

----------------------------------------------------------------------------
(* C8 *)

LoginForm(email, password) == [NoForm EXCEPT !.email = email, !.password = password]

\* C8: in every reachable state, a valid registration whose username and email are
\* not in the user table adds exactly one row, with that username and email and a
\* hash of the password, and is sent to the login view; and for every registration
\* that has succeeded, whatever was served since, a login of a client without a
\* session with its email and password starts a session of that identity for that
\* client only, and a login with its email and another password starts none.
C8_RegisterThenLogin ==
    /\ \A c \in Clients : \A form \in RegistrationForms : \A salt \in Salts :
          (RegistrationForm_validate(form) /\ ~UsernameTaken(form) /\ ~EmailTaken(form)) =>
              LET o == register_outcome(c, "POST", form, salt) IN
              /\ o.resp = Redirect(url_for("login"), NoUrl, FlashAccountCreated)
              /\ o.items = items /\ o.session = session
              /\ users \subseteq o.users
              /\ \E u \in o.users \ users :
                    /\ o.users = users \cup {u}
                    /\ u.id \notin UserIds(users)
                    /\ u.username = form.username /\ u.email = form.email
                    /\ u.password_hash = generate_password_hash(form.password, salt)
                    /\ u.password_hash.digest # form.password
    /\ \A cred \in credentials : \A c \in Clients : \A next_page \in NextParams :
          current_user(c) = 0 =>
              /\ LET o == login_outcome(c, "POST", LoginForm(cred.email, cred.password),
                                        next_page)
                 IN  /\ o.session = [session EXCEPT ![c] = cred.id]
                     /\ o.resp.flash = FlashLoginSucceeded
                     /\ \E u \in users : u.id = cred.id /\ u.email = cred.email
              /\ \A password \in Passwords \ {cred.password} :
                    LET o == login_outcome(c, "POST", LoginForm(cred.email, password),
                                           next_page)
                    IN  o.session = session /\ o.resp.flash = FlashLoginFailed

\* Two identities have registered, an item has been created since, and a client
\* without a session can log in as the first and as the second.
C8_Witness ==
    /\ Cardinality(credentials) = 2
    /\ items # {}
    /\ \E c \in Clients :
          /\ current_user(c) = 0
          /\ \A cred \in credentials :
                StartsSession(c, login_outcome(c, "POST",
                                    LoginForm(cred.email, cred.password), NoUrl))

----------------------------------------------------------------------------
(* C9 *)

\* The step is a login of client c.
IsLogin(c) ==
    \E form \in LoginForms : \E next_page \in NextParams : login(c, "POST", form, next_page)

\* logout of client c ends its session, if it has one, and nothing else, and is
\* answered with a redirect to the login view.
LogoutOutcome(c) ==
    LET o == logout_outcome(c) IN
    /\ ToLogin(o.resp)
    /\ o.session = [session EXCEPT ![c] = 0]
    /\ session[c] = 0 => o.session = session
    /\ o.users = users /\ o.items = items /\ o.item_id_seq = item_id_seq

\* C9: in every reachable state a logout of a client leaves that client without a
\* session, whether it had one or not, leaves the sessions of the others and the
\* tables as they are, and is answered with a redirect to the login view; in the
\* state after a logout every protected request of the client is turned away to the
\* login view; and a client without a session gets one by no step but a login of
\* its own.
C9_LogoutEndsSession ==
    /\ [](\A c \in Clients : LogoutOutcome(c))
    /\ [][\A c \in Clients :
             /\ logout(c) =>
                   /\ current_user(c)' = 0
                   /\ \A o \in ProtectedOutcomes(c)' :
                         ToLogin(o.resp) /\ o.items = items' /\ o.users = users'
             /\ (current_user(c) = 0 /\ current_user(c)' # 0) => IsLogin(c)
        ]_vars

\* A client has no session and the owner of an item is logged in nowhere: the session
\* the item was created in has been ended.
C9_Witness ==
    \E c \in Clients :
        /\ session[c] = 0
        /\ \E it \in items : \A c2 \in Clients : session[c2] # it.user_id

----------------------------------------------------------------------------
(* C10 *)

\* POST / of a logged-in client with a name adds one row, or none if the name is too
\* long for the column; the row is incomplete, owned by the client's identity, and
\* under an id no row has.
CreatedIncomplete ==
    \A c \in Clients : \A form \in AnyItemForms :
        (current_user(c) # 0 /\ ItemForm_validate(form)) =>
            LET o == index_outcome(c, "POST", form) IN
            /\ items \subseteq o.items
            /\ Cardinality(o.items \ items) <= 1
            /\ ~StringTooLong(form.name, 100) => o.items # items
            /\ \A it \in o.items \ items :
                  /\ it = Item(it.id, form.name, FALSE, current_user(c))
                  /\ it.id \notin ItemRowIds(items)

\* While an item exists, update_item of a logged-in client flips its flag and nothing
\* else, and delete_item removes it and nothing else, whatever its flag.
ToggleAndDeleteOfExisting ==
    \A c \in Clients : \A it \in items :
        current_user(c) # 0 =>
            /\ update_item_outcome(c, it.id).items =
                  (items \ {it}) \cup {[it EXCEPT !.complete = ~it.complete]}
            /\ delete_item_outcome(c, it.id).items = items \ {it}
            /\ \A it2 \in items : it2 # it => it2.id # it.id

\* update_item and delete_item of an id no row has change nothing and redirect to the
\* index.
MissingIdIsNoOp ==
    \A c \in Clients : \A item_id \in AnyItemIds :
        (current_user(c) # 0 /\ item_id \notin ItemRowIds(items)) =>
            \A o \in {update_item_outcome(c, item_id), delete_item_outcome(c, item_id)} :
                /\ o.users = users /\ o.items = items /\ o.session = session
                /\ o.resp = Redirect(url_for("index"), NoUrl, "")

\* No row has the id of a deleted row.
DeletedIdsStayGone == \A it \in items : it.id \notin deleted

\* C10 as claimed: created items start incomplete; update_item flips an existing item
\* and delete_item removes it from either state; update_item and delete_item of a
\* missing id are no-ops that redirect to the index; and no item is ever visible
\* under the id of a deleted item.
C10_Lifecycle_AsClaimed ==
    /\ CreatedIncomplete
    /\ ToggleAndDeleteOfExisting
    /\ MissingIdIsNoOp
    /\ DeletedIdsStayGone

\* A request that brings back the id of a deleted row is a POST / on SQLite, and the
\* row is a new incomplete item of the client that posted it.
OnlyCreateReusesDeletedId ==
    \A c \in Clients : \A o \in OutcomesOf(c) : \A it \in o.items :
        (it.id \in deleted /\ it.id \notin ItemRowIds(items)) =>
            /\ backend = "sqlite"
            /\ o \in {index_outcome(c, "POST", form) : form \in AnyItemForms}
            /\ it.id = Max(ItemRowIds(items)) + 1
            /\ ~it.complete /\ it.user_id = current_user(c)

\* C10 as amended: as claimed, but for the last part: on PostgreSQL no item is ever
\* visible under the id of a deleted item, and on SQLite no request but a create
\* (POST /) makes one visible, as a new incomplete item of its creator under an id
\* larger than every id in the table.
C10_Lifecycle ==
    /\ CreatedIncomplete
    /\ ToggleAndDeleteOfExisting
    /\ MissingIdIsNoOp
    /\ backend = "postgresql" => DeletedIdsStayGone
    /\ OnlyCreateReusesDeletedId

\* An item is visible under the id of a deleted item, and it has been toggled.
C10_Witness ==
    \E it \in items : it.id \in deleted /\ it.complete

====
